---- MODULE Spec2Model ----
(***************************************************************************)
(* Disk scheduling simulator (src/app.py): the four scheduling policies    *)
(* fcfs, sstf, scan and c_scan, the two handlers that call them, "Run      *)
(* Simulation" and "Compare All Algorithms", and "Generate Random          *)
(* Requests", which sets the text they parse.                              *)
(*                                                                         *)
(* Python lists are objects: `lists` is the heap of list objects, and      *)
(* `requests` and `reqs` hold references (indices) into it, so that a      *)
(* removal through one reference is seen through every alias of it.        *)
(***************************************************************************)
EXTENDS Integers, Sequences, FiniteSets, TLC

VARIABLES
    req_str,    \* the requests' text: the "Enter disk requests" input, or the generated one
    head,       \* starting head position
    disk_size,  \* disk size in cylinders
    lists,      \* heap of list objects: reference -> contents
    requests,   \* reference of the caller's request list (0: none yet)
    given,      \* contents of the caller's list when it was handed to the policy
    reqs,       \* sstf: reference of its working list (0: none)
    order,      \* the policy's visit order
    current,    \* sstf: current head position
    total,      \* the policy's total seek distance
    pc,         \* control location
    handler,    \* who called the policy: "direct", "none", "run", "compare"
    algo,       \* name of the policy being run
    idx,        \* compare-all: position in the algorithms mapping
    results,    \* compare-all: name -> total, as a sequence of pairs in insertion order
    orders,     \* compare-all: name -> order, as a sequence of pairs in insertion order
    metrics,    \* what the handler displays: run metrics or the comparison table
    outcome     \* how the handler ended: "none", "ok", or the exception raised

vars == <<req_str, head, disk_size, lists, requests, given, reqs, order, current,
          total, pc, handler, algo, idx, results, orders, metrics, outcome>>

\* ------------------------------------------------------------------ bounds
MaxCyl == 3   \* direct calls: requests and head range over 0..MaxCyl
MaxLen == 3   \* direct calls: longest request list
MaxStr == 5   \* handlers: longest typed input text
MaxSpare == 1 \* generated requests: cylinders to choose from, beyond the 8 chosen
MaxRot == 1   \* generated requests: most places an arrangement is rotated by

\* ------------------------------------------------------- Python primitives
Abs(x) == IF x < 0 THEN -x ELSE x

\* sum(abs(order[i] - order[i - 1]) for i in range(1, len(order)))
\* (TLA+ sequences are 1-based: Python's i is i + 1 here, starting at from)
RECURSIVE SumAbsDiffsFrom(_, _)
SumAbsDiffsFrom(o, from) ==
    IF from > Len(o) THEN 0
    ELSE Abs(o[from] - o[from - 1]) + SumAbsDiffsFrom(o, from + 1)

\* variant: the differences summed without abs
SumSignedDiffs(o) == IF Len(o) = 0 THEN 0 ELSE o[Len(o)] - o[1]

SumAbsDiffs(o) == SumAbsDiffsFrom(o, 2)

\* total = 0; for i in range(1, len(order)): total += abs(order[i] - order[i - 1])
RECURSIVE AccumulateLoop(_, _, _)
AccumulateLoop(o, i, acc) ==
    IF i > Len(o) THEN acc
    ELSE AccumulateLoop(o, i + 1, acc + Abs(o[i] - o[i - 1]))

\* sorted(xs): ascending, by insertion
RECURSIVE InsertSorted(_, _)
InsertSorted(x, s) ==
    IF s = <<>> THEN <<x>>
    ELSE IF x < Head(s) THEN <<x>> \o s
    ELSE <<Head(s)>> \o InsertSorted(x, Tail(s))

RECURSIVE Sorted(_)
Sorted(s) == IF s = <<>> THEN <<>> ELSE InsertSorted(s[Len(s)], Sorted(SubSeq(s, 1, Len(s) - 1)))

\* xs[::-1]
Reversed(s) == [i \in 1..Len(s) |-> s[Len(s) + 1 - i]]

\* min(xs, key=lambda x: abs(x - cur)) on a non-empty list: the first element
\* whose key is the smallest; i is the position examined, best the best so far.
RECURSIVE MinByKeyFrom(_, _, _, _)
MinByKeyFrom(xs, cur, i, best) ==
    IF i > Len(xs) THEN xs[best]
    ELSE IF Abs(xs[i] - cur) < Abs(xs[best] - cur)
         THEN MinByKeyFrom(xs, cur, i + 1, i)
         ELSE MinByKeyFrom(xs, cur, i + 1, best)

\* variant: the last element whose key is the smallest
RECURSIVE MinByKeyLastFrom(_, _, _, _)
MinByKeyLastFrom(xs, cur, i, best) ==
    IF i > Len(xs) THEN xs[best]
    ELSE IF Abs(xs[i] - cur) <= Abs(xs[best] - cur)
         THEN MinByKeyLastFrom(xs, cur, i + 1, i)
         ELSE MinByKeyLastFrom(xs, cur, i + 1, best)

MinByKeyLast(xs, cur) == MinByKeyLastFrom(xs, cur, 2, 1)

MinByKey(xs, cur) == MinByKeyFrom(xs, cur, 2, 1)

\* variant: every element equal to v removed
RemoveAll(xs, v) == SelectSeq(xs, LAMBDA x : x # v)

\* xs.remove(v): the list without its first element equal to v
RECURSIVE ListRemove(_, _)
ListRemove(xs, v) ==
    IF xs = <<>> THEN <<>>
    ELSE IF Head(xs) = v THEN Tail(xs)
    ELSE <<Head(xs)>> \o ListRemove(Tail(xs), v)

\* variant: no copy, the working list is the caller's list
AliasRef(h, ref) == ref

\* requests.copy(): the reference of the new list object in heap h
CopyRef(h, ref) == Len(h) + 1

\* ------------------------------------------------------------ the policies
\* variant: the requests sorted
FcfsSorted(rs, h) == <<h>> \o Sorted(rs)

\* fcfs, line 10
FcfsOrder(rs, h) == <<h>> \o rs

\* scan and c_scan, lines 29-30 and 38-39
Left(rs, h) == Sorted(SelectSeq(rs, LAMBDA r : r < h))

\* variant: the requests equal to head left out
RightStrict(rs, h) == Sorted(SelectSeq(rs, LAMBDA r : r > h))

Right(rs, h) == Sorted(SelectSeq(rs, LAMBDA r : r >= h))

\* variant: no boundary visit when the last request served is the boundary
ScanSkipBoundary(rs, h, ds) ==
    LET right == Right(rs, h)
        atEnd == right # <<>> /\ right[Len(right)] = ds - 1
    IN  <<h>> \o right \o (IF atEnd THEN <<>> ELSE <<ds - 1>>) \o Reversed(Left(rs, h))

\* scan, line 33
ScanOrder(rs, h, ds) == <<h>> \o Right(rs, h) \o <<ds - 1>> \o Reversed(Left(rs, h))

\* variant: the low requests served descending, as scan does
CScanReversing(rs, h, ds) == <<h>> \o Right(rs, h) \o <<ds - 1, 0>> \o Reversed(Left(rs, h))

\* c_scan, line 42
CScanOrder(rs, h, ds) == <<h>> \o Right(rs, h) \o <<ds - 1, 0>> \o Left(rs, h)

\* the algorithms mapping, lines 89-94, in insertion order
AlgoNames == <<"FCFS", "SSTF", "SCAN", "C-SCAN">>
Entry(name) ==
    CASE name = "FCFS" -> "fcfs"
      [] name = "SSTF" -> "sstf"
      [] name = "SCAN" -> "scan"
      [] name = "C-SCAN" -> "c_scan"

Locals == <<reqs, order, current, total>>
Caller == <<req_str, head, disk_size, requests, given, handler, algo, idx,
            results, orders, metrics, outcome>>

\* def fcfs(requests, head)
Fcfs ==
    /\ pc = "fcfs"
    /\ order' = FcfsOrder(lists[requests], head)
    /\ total' = SumAbsDiffs(order')
    /\ pc' = "returned"
    /\ UNCHANGED <<lists, reqs, current>>
    /\ UNCHANGED Caller

\* def sstf(requests, head): lines 15-17
SstfEnter ==
    /\ pc = "sstf"
    /\ reqs' = CopyRef(lists, requests)
    /\ lists' = Append(lists, lists[requests])
    /\ order' = <<head>>
    /\ current' = head
    /\ pc' = "sstf_loop"
    /\ UNCHANGED total
    /\ UNCHANGED Caller

\* one iteration of `while reqs:`, lines 19-23
SstfIterate ==
    /\ pc = "sstf_loop"
    /\ lists[reqs] # <<>>
    /\ LET nearest == MinByKey(lists[reqs], current)
       IN  /\ order' = Append(order, nearest)
           /\ lists' = [lists EXCEPT ![reqs] = ListRemove(@, nearest)]
           /\ current' = nearest
    /\ UNCHANGED <<reqs, total, pc>>
    /\ UNCHANGED Caller

\* the loop's exit, lines 25-26
SstfReturn ==
    /\ pc = "sstf_loop"
    /\ lists[reqs] = <<>>
    /\ total' = SumAbsDiffs(order)
    /\ pc' = "returned"
    /\ UNCHANGED <<lists, reqs, order, current>>
    /\ UNCHANGED Caller

\* def scan(requests, head, disk_size)
Scan ==
    /\ pc = "scan"
    /\ order' = ScanOrder(lists[requests], head, disk_size)
    /\ total' = SumAbsDiffs(order')
    /\ pc' = "returned"
    /\ UNCHANGED <<lists, reqs, current>>
    /\ UNCHANGED Caller

\* def c_scan(requests, head, disk_size)
CScan ==
    /\ pc = "c_scan"
    /\ order' = CScanOrder(lists[requests], head, disk_size)
    /\ total' = AccumulateLoop(order', 2, 0)
    /\ pc' = "returned"
    /\ UNCHANGED <<lists, reqs, current>>
    /\ UNCHANGED Caller

Policy == Fcfs \/ SstfEnter \/ SstfIterate \/ SstfReturn \/ Scan \/ CScan

\* ------------------------------------------------- direct calls of a policy
RECURSIVE SeqsUpTo(_, _)
SeqsUpTo(S, n) ==
    IF n = 0 THEN {<<>>}
    ELSE LET shorter == SeqsUpTo(S, n - 1)
         IN  shorter \cup {Append(s, x) : s \in {t \in shorter : Len(t) = n - 1}, x \in S}

Cylinders == 0..MaxCyl
DiskSizes == {1, MaxCyl, MaxCyl + 1, MaxCyl + 2}

Init ==
    /\ req_str = <<>>
    /\ head \in Cylinders
    /\ disk_size \in DiskSizes
    /\ given \in SeqsUpTo(Cylinders, MaxLen)
    /\ lists = <<given>>
    /\ requests = 1
    /\ reqs = 0
    /\ order = <<>>
    /\ current = 0
    /\ total = 0
    /\ pc = "idle"
    /\ handler = "direct"
    /\ algo = ""
    /\ idx = 0
    /\ results = <<>>
    /\ orders = <<>>
    /\ metrics = <<>>
    /\ outcome = "none"

\* a caller invokes one of the four policies on its list
Invoke(name) ==
    /\ pc = "idle"
    /\ handler = "direct"
    /\ algo' = name
    /\ pc' = Entry(name)
    /\ UNCHANGED <<req_str, head, disk_size, lists, requests, given, idx,
                   results, orders, metrics, outcome, handler>>
    /\ UNCHANGED Locals

Next ==
    \/ \E i \in 1..Len(AlgoNames) : Invoke(AlgoNames[i])
    \/ Policy

Spec == Init /\ [][Next]_vars

\* direct calls of sstf alone, which takes no disk_size; once entered, sstf keeps
\* running: nothing in it waits or blocks
SstfInit == Init /\ disk_size = MaxCyl + 1
SstfSteps == SstfEnter \/ SstfIterate \/ SstfReturn
SstfNext == Invoke("SSTF") \/ SstfSteps
LiveSpec == SstfInit /\ [][SstfNext]_vars /\ WF_vars(SstfSteps)

\* direct calls of the four policies one after the other on the same list, as
\* the loop of lines 120-126 makes them: `for name, fn in algorithms.items():
\* order, total = fn(request_list, head); results[name] = total; orders[name] =
\* order`; idx is the position in the mapping
CallAll ==
    /\ pc = "idle"
    /\ handler = "direct"
    /\ idx' = 1
    /\ algo' = AlgoNames[1]
    /\ pc' = Entry(AlgoNames[1])
    /\ UNCHANGED <<req_str, head, disk_size, lists, requests, given, results,
                   orders, metrics, outcome, handler>>
    /\ UNCHANGED Locals

\* after a policy's return: lines 125-126, then the next policy's call on the
\* same list, or the loop's end
CallNextPolicy ==
    /\ pc = "returned"
    /\ handler = "direct"
    /\ idx >= 1
    /\ results' = Append(results, <<algo, total>>)
    /\ orders' = Append(orders, <<algo, order>>)
    /\ IF idx < Len(AlgoNames)
       THEN /\ idx' = idx + 1
            /\ algo' = AlgoNames[idx + 1]
            /\ pc' = Entry(AlgoNames[idx + 1])
       ELSE /\ pc' = "called"
            /\ UNCHANGED <<idx, algo>>
    /\ UNCHANGED <<req_str, head, disk_size, lists, requests, given, metrics,
                   outcome, handler>>
    /\ UNCHANGED Locals

CallsNext ==
    \/ \E i \in 1..Len(AlgoNames) : Invoke(AlgoNames[i])
    \/ CallAll
    \/ CallNextPolicy
    \/ Policy

CallsSpec == Init /\ [][CallsNext]_vars

\* ------------------------------------------------------------ the handlers
\* the characters a typed input text is made of here
Chars == {"1", "2", ",", " "}

\* the decimal digits, as int reads and str writes them
DigitChars == <<"0", "1", "2", "3", "4", "5", "6", "7", "8", "9">>
Digits == {DigitChars[i] : i \in DOMAIN DigitChars}
DigitValue(c) == (CHOOSE i \in DOMAIN DigitChars : DigitChars[i] = c) - 1

\* req_str.split(','): the pieces between the commas, at least one; i is the
\* position examined, done the pieces ended by a comma, piece the one being read
RECURSIVE StrSplitFrom(_, _, _, _)
StrSplitFrom(s, i, done, piece) ==
    IF i > Len(s) THEN Append(done, piece)
    ELSE IF s[i] = "," THEN StrSplitFrom(s, i + 1, Append(done, piece), <<>>)
    ELSE StrSplitFrom(s, i + 1, done, Append(piece, s[i]))

StrSplit(s) == StrSplitFrom(s, 1, <<>>, <<>>)

\* int(tok) skips the blanks around the number
RECURSIVE LStrip(_)
LStrip(tok) == IF tok # <<>> /\ Head(tok) = " " THEN LStrip(Tail(tok)) ELSE tok
RECURSIVE RStrip(_)
RStrip(tok) ==
    IF tok # <<>> /\ tok[Len(tok)] = " " THEN RStrip(SubSeq(tok, 1, Len(tok) - 1)) ELSE tok
Strip(tok) == RStrip(LStrip(tok))

\* whether int(tok) returns, rather than raising ValueError
IntParses(tok) ==
    /\ Strip(tok) # <<>>
    /\ \A i \in DOMAIN Strip(tok) : Strip(tok)[i] \in Digits

\* int(tok), when it returns
IntOf(tok) ==
    LET digits == Strip(tok)
        value[i \in 0..Len(digits)] ==
            IF i = 0 THEN 0 ELSE 10 * value[i - 1] + DigitValue(digits[i])
    IN  value[Len(digits)]

\* list(map(int, req_str.split(','))), lines 100 and 118
ParseFails(s) == \E i \in DOMAIN StrSplit(s) : ~IntParses(StrSplit(s)[i])
ParseRequests(s) == [i \in DOMAIN StrSplit(s) |-> IntOf(StrSplit(s)[i])]

\* str(n) for n >= 0
RECURSIVE StrOf(_)
StrOf(n) ==
    IF n < 10 THEN <<DigitChars[n + 1]>>
    ELSE Append(StrOf(n \div 10), DigitChars[(n % 10) + 1])

\* ", ".join(map(str, xs))
RECURSIVE JoinCommaSpace(_)
JoinCommaSpace(xs) ==
    IF xs = <<>> THEN <<>>
    ELSE IF Len(xs) = 1 THEN StrOf(xs[1])
    ELSE JoinCommaSpace(SubSeq(xs, 1, Len(xs) - 1)) \o <<",", " ">> \o StrOf(xs[Len(xs)])

\* The outcomes of random.sample(range(0, disk_size), 8) that the runs here are
\* given. The code can return any SampleSize different cylinders below ds in any
\* arrangement; the ones given here are bounded: SampleSize of the
\* SampleSize + MaxSpare cylinders spread evenly over range(0, ds), both ends
\* included, ascending or descending, rotated by 0..MaxRot places.
SampleSize == 8
SamplePool(ds) ==
    LET n == SampleSize + MaxSpare
    IN  {(i * (ds - 1)) \div (n - 1) : i \in 0..(n - 1)}
RECURSIVE SeqOfSet(_)
SeqOfSet(S) ==
    IF S = {} THEN <<>>
    ELSE LET x == CHOOSE y \in S : TRUE IN <<x>> \o SeqOfSet(S \ {x})
Rotated(xs, r) == [i \in 1..Len(xs) |-> xs[((i + r - 1) % Len(xs)) + 1]]
Samples(ds) ==
    LET chosen == {S \in SUBSET SamplePool(ds) : Cardinality(S) = SampleSize}
        bases == {Sorted(SeqOfSet(S)) : S \in chosen}
                    \cup {Reversed(Sorted(SeqOfSet(S))) : S \in chosen}
    IN  {Rotated(b, r) : b \in bases, r \in 0..MaxRot}

\* a / b: the quotient as the pair <<a, b>>
Quotient(a, b) == <<a, b>>

\* len(requests) / total if total != 0 else 0, lines 106 and 135
Throughput(n, t) == IF t # 0 THEN Quotient(n, t) ELSE Quotient(0, 1)

\* The script runs from top to bottom, and each `if st.button(...)` block runs
\* when its button is True, whatever the other buttons are: pc = "idle" is the
\* script before line 84, "ready" after line 87, and a block whose button is
\* False takes no step.

\* "Generate Random Requests", random.sample returning `sample`: lines 84-87
GenerateRandom(sample) ==
    /\ pc = "idle"
    /\ handler = "none"
    /\ req_str' = JoinCommaSpace(sample)
    /\ pc' = "ready"
    /\ UNCHANGED <<head, disk_size, lists, requests, given, handler, algo, idx,
                   results, orders, metrics, outcome>>
    /\ UNCHANGED Locals

\* "Run Simulation" with `name` selected: lines 100-103, up to the policy's call
RunSimulation(name) ==
    /\ pc \in {"idle", "ready"}
    /\ handler = "none"
    /\ handler' = "run"
    /\ algo' = name
    /\ IF ParseFails(req_str)
       THEN /\ outcome' = "ValueError"
            /\ pc' = "done"
            /\ UNCHANGED <<lists, requests, given>>
       ELSE /\ lists' = <<ParseRequests(req_str)>>
            /\ requests' = 1
            /\ given' = ParseRequests(req_str)
            /\ pc' = Entry(name)
            /\ UNCHANGED outcome
    /\ UNCHANGED <<req_str, head, disk_size, idx, results, orders, metrics>>
    /\ UNCHANGED Locals

\* "Run Simulation" after the policy's return: lines 105-112
RunMetrics ==
    /\ pc = "returned"
    /\ handler = "run"
    /\ LET n == Len(lists[requests])
       IN  IF n = 0
           THEN /\ outcome' = "ZeroDivisionError"
                /\ UNCHANGED metrics
           ELSE /\ metrics' = [avg_seek |-> Quotient(total, n),
                               throughput |-> Throughput(n, total)]
                /\ outcome' = "ok"
    /\ pc' = "done"
    /\ UNCHANGED <<req_str, head, disk_size, lists, requests, given, handler, algo,
                   idx, results, orders>>
    /\ UNCHANGED Locals

\* "Compare All Algorithms": lines 118-124, up to the first policy's call; it
\* runs at the start of the script's handlers, or after a "Run Simulation" block
\* of the same script run that raised nothing
CompareAll ==
    /\ \/ pc \in {"idle", "ready"} /\ handler = "none"
       \/ pc = "done" /\ handler = "run" /\ outcome = "ok"
    /\ handler' = "compare"
    /\ IF ParseFails(req_str)
       THEN /\ outcome' = "ValueError"
            /\ pc' = "done"
            /\ UNCHANGED <<lists, requests, given, idx, algo>>
       ELSE /\ lists' = <<ParseRequests(req_str)>>
            /\ requests' = 1
            /\ given' = ParseRequests(req_str)
            /\ idx' = 1
            /\ algo' = AlgoNames[1]
            /\ pc' = Entry(AlgoNames[1])
            /\ outcome' = "none"
    /\ UNCHANGED <<req_str, head, disk_size, results, orders, metrics>>
    /\ UNCHANGED Locals

\* the comparison loop after a policy's return: lines 125-126, then the next
\* policy's call on the same list, or the loop's end
CompareStore ==
    /\ pc = "returned"
    /\ handler = "compare"
    /\ results' = Append(results, <<algo, total>>)
    /\ orders' = Append(orders, <<algo, order>>)
    /\ IF idx < Len(AlgoNames)
       THEN /\ idx' = idx + 1
            /\ algo' = AlgoNames[idx + 1]
            /\ pc' = Entry(AlgoNames[idx + 1])
       ELSE /\ pc' = "table"
            /\ UNCHANGED <<idx, algo>>
    /\ UNCHANGED <<req_str, head, disk_size, lists, requests, given, handler,
                   metrics, outcome>>
    /\ UNCHANGED Locals

\* the comparison table: lines 131-136
CompareTable ==
    /\ pc = "table"
    /\ LET n == Len(lists[requests])
       IN  IF n = 0
           THEN /\ outcome' = "ZeroDivisionError"
                /\ UNCHANGED metrics
           ELSE /\ metrics' = [i \in DOMAIN results |->
                                 [Algorithm |-> results[i][1],
                                  TotalSeekTime |-> results[i][2],
                                  AvgSeekTime |-> Quotient(results[i][2], n),
                                  Throughput |-> Throughput(n, results[i][2])]]
                /\ outcome' = "ok"
    /\ pc' = "done"
    /\ UNCHANGED <<req_str, head, disk_size, lists, requests, given, handler, algo,
                   idx, results, orders>>
    /\ UNCHANGED Locals

\* the widgets' values the handlers are run on (defaults: head 50, disk size 200)
UIHeads == {0, 2, 50}
UIDiskSizes == {100, 200}

UIInit ==
    /\ req_str \in SeqsUpTo(Chars, MaxStr)
    /\ head \in UIHeads
    /\ disk_size \in UIDiskSizes
    /\ lists = <<>>
    /\ requests = 0
    /\ given = <<>>
    /\ reqs = 0
    /\ order = <<>>
    /\ current = 0
    /\ total = 0
    /\ pc = "idle"
    /\ handler = "none"
    /\ algo = ""
    /\ idx = 0
    /\ results = <<>>
    /\ orders = <<>>
    /\ metrics = <<>>
    /\ outcome = "none"

UINext ==
    \/ pc = "idle" /\ \E sample \in Samples(disk_size) : GenerateRandom(sample)
    \/ \E i \in 1..Len(AlgoNames) : RunSimulation(AlgoNames[i])
    \/ RunMetrics
    \/ CompareAll
    \/ CompareStore
    \/ CompareTable
    \/ Policy

UISpec == UIInit /\ [][UINext]_vars

\* ------------------------------------------------------------- properties
Range(s) == {s[i] : i \in DOMAIN s}
Count(s, v) == Cardinality({i \in DOMAIN s : s[i] = v})
SameMultiset(a, b) == \A v \in Range(a) \cup Range(b) : Count(a, v) = Count(b, v)
Ascending(s) == \A i \in 1..(Len(s) - 1) : s[i] <= s[i + 1]
Returned(name) == pc = "returned" /\ algo = name

\* the length of the path through the positions of o, by position
PathLength(o) ==
    LET upTo[i \in 1..Len(o)] ==
            IF i = 1 THEN 0
            ELSE upTo[i - 1] + (IF o[i] >= o[i - 1] THEN o[i] - o[i - 1] ELSE o[i - 1] - o[i])
    IN  upTo[Len(o)]

\* the boundary cylinders a policy visits besides the requests
Boundary(name) ==
    CASE name = "SCAN" -> <<disk_size - 1>>
      [] name = "C-SCAN" -> <<disk_size - 1, 0>>
      [] OTHER -> <<>>

\* C1, as stated: every policy returns head followed by exactly the requests,
\* len(order) = len(requests) + 1 and order[1:] is the multiset of the requests.
C1_OrderIsHeadPlusRequests ==
    pc = "returned" =>
        /\ order[1] = head
        /\ Len(order) = Len(given) + 1
        /\ SameMultiset(Tail(order), given)

\* C1, amended: the order starts with head and its rest is the multiset of the
\* requests plus the boundary cylinders the policy visits: none for fcfs and sstf
\* (length len + 1), disk_size - 1 for scan (len + 2), disk_size - 1 and 0 for
\* c_scan (len + 3). No request is dropped or duplicated.
C1_OrderIsHeadRequestsAndBoundary ==
    pc = "returned" =>
        /\ order[1] = head
        /\ Len(order) = Len(given) + 1 + Len(Boundary(algo))
        /\ SameMultiset(Tail(order), given \o Boundary(algo))

\* sstf has returned on a list with a duplicate and an equal-distance tie
C1_Witness ==
    /\ Returned("SSTF")
    /\ \E i, j \in DOMAIN given : i < j /\ given[i] = given[j]
    /\ \E i, j \in DOMAIN given :
          given[i] # given[j] /\ Abs(given[i] - head) = Abs(given[j] - head)

\* C2: the returned total is the sum of |order[i] - order[i-1]| over the
\* consecutive pairs of the returned order, is >= 0, and is 0 for a single element.
C2_TotalIsPathLength ==
    pc = "returned" =>
        /\ total = PathLength(order)
        /\ total >= 0
        /\ (Len(order) = 1 => total = 0)

\* a policy has returned an order that moves both up and down
C2_Witness ==
    /\ pc = "returned"
    /\ \E i \in 1..(Len(order) - 1) : order[i] < order[i + 1]
    /\ \E i \in 1..(Len(order) - 1) : order[i] > order[i + 1]
    /\ total > 0

\* C3, as stated: disk_size - 1 occurs exactly once in scan's order.
C3_BoundaryOccursOnce ==
    Returned("SCAN") => Count(order, disk_size - 1) = 1

\* C3, amended: scan inserts disk_size - 1 exactly once: it occurs in the order
\* once more than in [head] + requests (so exactly once when neither head nor a
\* request equals it), also when no request is >= head.
C3_BoundaryInsertedOnce ==
    Returned("SCAN") =>
        Count(order, disk_size - 1) = 1 + Count(<<head>> \o given, disk_size - 1)

\* scan has returned on a list where a request equals disk_size - 1
C3_Witness ==
    /\ Returned("SCAN")
    /\ Count(given, disk_size - 1) >= 1
    /\ head # disk_size - 1

\* C6: c_scan's order has disk_size - 1 immediately followed by 0; the requests
\* >= head come before that pair, ascending, and the requests < head after it,
\* ascending.
C6_CScanJumpThenLowAscending ==
    Returned("C-SCAN") =>
        \E k \in 2..(Len(order) - 1) :
            LET high == SubSeq(order, 2, k - 1)
                low == SubSeq(order, k + 2, Len(order))
            IN  /\ order[k] = disk_size - 1
                /\ order[k + 1] = 0
                /\ \A i \in DOMAIN high : high[i] >= head
                /\ \A i \in DOMAIN low : low[i] < head
                /\ Ascending(high)
                /\ Ascending(low)
                /\ SameMultiset(high, SelectSeq(given, LAMBDA r : r >= head))
                /\ SameMultiset(low, SelectSeq(given, LAMBDA r : r < head))

\* c_scan has returned with two different requests below head and one above
C6_Witness ==
    /\ Returned("C-SCAN")
    /\ \E i, j \in DOMAIN given : given[i] < given[j] /\ given[j] < head
    /\ \E i \in DOMAIN given : given[i] >= head

\* C8: fcfs returns [head] followed by the requests in their input order.
C8_FcfsKeepsInputOrder ==
    Returned("FCFS") =>
        /\ Len(order) = Len(given) + 1
        /\ order[1] = head
        /\ \A i \in DOMAIN given : order[i + 1] = given[i]

\* fcfs has returned on an unsorted list with a duplicate
C8_Witness ==
    /\ Returned("FCFS")
    /\ \E i \in 1..(Len(given) - 1) : given[i] > given[i + 1]
    /\ \E i, j \in DOMAIN given : i < j /\ given[i] = given[j]

\* C9: every sstf iteration appends a remaining request of minimal distance
\* from current (the last position appended), the first such in the remaining
\* list's order, and removes exactly one occurrence of it.
C9_SstfPicksFirstNearest ==
    [][(pc = "sstf_loop" /\ order' # order) =>
        LET remaining == lists[reqs]
            after == lists'[reqs']
            chosen == order'[Len(order')]
            dist(x) == IF x >= current THEN x - current ELSE current - x
        IN  /\ current = order[Len(order)]
            /\ order' = Append(order, chosen)
            /\ \E p \in DOMAIN remaining :
                  /\ remaining[p] = chosen
                  /\ \A q \in DOMAIN remaining : dist(remaining[q]) >= dist(chosen)
                  /\ \A q \in 1..(p - 1) : dist(remaining[q]) > dist(chosen)
                  /\ after = SubSeq(remaining, 1, p - 1)
                               \o SubSeq(remaining, p + 1, Len(remaining))
            /\ current' = chosen
      ]_vars

\* sstf has made a first pick where two different requests were equally near
C9_Witness ==
    /\ pc = "sstf_loop"
    /\ Len(order) >= 2
    /\ \E i, j \in DOMAIN given :
          /\ given[i] # given[j]
          /\ Abs(given[i] - head) = Abs(given[j] - head)
          /\ \A k \in DOMAIN given : Abs(given[k] - head) >= Abs(given[i] - head)

\* C10: the sstf loop ends: each iteration shrinks the remaining list by one, it
\* returns after len(requests) iterations with the remaining list empty, and on
\* an empty list it makes no iteration and returns ([head], 0).
C10_SstfTerminates ==
    /\ [](pc = "sstf_loop" => Len(order) - 1 + Len(lists[reqs]) = Len(given))
    /\ [](Returned("SSTF") =>
            /\ lists[reqs] = <<>>
            /\ Len(order) - 1 = Len(given)
            /\ (given = <<>> => order = <<head>> /\ total = 0))
    /\ [][(pc = "sstf_loop" /\ order' # order) =>
            Len(lists'[reqs']) = Len(lists[reqs]) - 1]_vars
    /\ (pc = "sstf" ~> Returned("SSTF"))

\* sstf has returned after three or more iterations on a list with a duplicate
C10_Witness ==
    /\ Returned("SSTF")
    /\ Len(order) >= 4
    /\ \E i, j \in DOMAIN given : i < j /\ given[i] = given[j]

\* C4, as stated: with an empty request list, the handlers' average and
\* throughput computation ends in an explicit EmptyInput outcome.
C4_EmptyListEndsInEmptyInput ==
    (pc = "done" /\ req_str = <<>>) => outcome = "EmptyInput"

\* C5, as stated: when the comparison's metrics cannot be computed (the empty
\* request list), the result still has an entry for each of the four policies.
C5_CompareReturnsAllFourEntries ==
    (pc = "done" /\ handler = "compare" /\ req_str = <<>>) =>
        \A i \in DOMAIN AlgoNames :
            \E j \in DOMAIN metrics : metrics[j].Algorithm = AlgoNames[i]

\* C7: the caller's request list keeps the elements it was handed over with, in
\* the same order, during and after every policy's call, alone or as one of the
\* four calls made in sequence on the same list; in a handler that list is the
\* parsed input text.
C7_CallerListUnchanged ==
    requests # 0 =>
        /\ lists[requests] = given
        /\ handler \in {"run", "compare"} => given = ParseRequests(req_str)

\* all four policies have been called in sequence on one list of three or more
\* requests, one of them repeated, their results are stored, and sstf has
\* emptied its working list
C7_Witness ==
    /\ handler = "direct"
    /\ pc = "called"
    /\ Len(results) = Len(AlgoNames)
    /\ Len(given) >= 3
    /\ Cardinality(Range(given)) < Len(given)
    /\ reqs # 0
    /\ reqs # requests
    /\ lists[reqs] = <<>>
====
